---- MODULE Spec2Model ----
(***************************************************************************)
(* Model of openMVG::cameras::Pinhole_Intrinsic                            *)
(* (src/openMVG/cameras/Camera_Pinhole.hpp).                               *)
(*                                                                         *)
(* One camera object is modelled: its image size (_w, _h, held by the      *)
(* IntrinsicBase part), its calibration matrix _K and the cached inverse   *)
(* _Kinv.  Every public operation that reads or writes that state is an    *)
(* action; the last call, its argument and its result are kept in op, arg  *)
(* and ret so that the properties can speak about them.                    *)
(*                                                                         *)
(* double values are modelled as exact fractions n/d extended with the     *)
(* IEEE specials (d = 0: n = 1 is +inf, n = -1 is -inf, n = 0 is NaN), so  *)
(* that the inverse of a singular K is what the arithmetic produces and    *)
(* not something chosen.  Rounding and the sign of zero are not modelled.  *)
(***************************************************************************)
EXTENDS Integers, Sequences, FiniteSets, TLC

VARIABLES
  cam,      \* the object: [w, h, K, Kinv]
  fresh,    \* history: built by the default constructor, nothing written since
  changed,  \* history: the last call left the object different from before
  op,       \* the last call
  arg,      \* its argument
  ret       \* its result

vars == <<cam, fresh, changed, op, arg, ret>>

\* Bounds of the explored inputs.
MaxDim == 1
MaxFocal == 2
MaxCoord == 1
MaxLen == 4

----------------------------------------------------------------------------
(* double arithmetic *)

Abs(x) == IF x < 0 THEN -x ELSE x

Sign(x) == IF x > 0 THEN 1 ELSE IF x < 0 THEN -1 ELSE 0

RECURSIVE GCD(_, _)
GCD(a, b) == IF b = 0 THEN a ELSE GCD(b, a % b)

\* The fraction n/d in lowest terms with a positive denominator; d = 0 gives
\* the special value with the sign of n.
Norm(n, d) ==
  IF d = 0 THEN [n |-> Sign(n), d |-> 0]
  ELSE LET g == GCD(Abs(n), Abs(d))
           s == Sign(d)
       IN  [n |-> (s * n) \div g, d |-> (s * d) \div g]

R(i) == [n |-> i, d |-> 1]

Zero == R(0)
One == R(1)
NaN == [n |-> 0, d |-> 0]

IsNaN(a) == a.d = 0 /\ a.n = 0
IsInf(a) == a.d = 0 /\ a.n # 0

Neg(a) == [n |-> -a.n, d |-> a.d]

Mul(a, b) == Norm(a.n * b.n, a.d * b.d)

Add(a, b) ==
  IF IsNaN(a) \/ IsNaN(b) THEN NaN
  ELSE IF IsInf(a) /\ IsInf(b) THEN (IF a.n = b.n THEN a ELSE NaN)
  ELSE IF IsInf(a) THEN a
  ELSE IF IsInf(b) THEN b
  ELSE Norm(a.n * b.d + b.n * a.d, a.d * b.d)

Sub(a, b) == Add(a, Neg(b))

\* 1/b : 1/0 is +inf, 1/inf is 0, 1/NaN is NaN.
Recip(b) ==
  IF IsNaN(b) THEN NaN
  ELSE IF b.n = 0 THEN [n |-> 1, d |-> 0]
  ELSE IF b.d = 0 THEN Zero
  ELSE Norm(b.d, b.n)

Div(a, b) == Mul(a, Recip(b))

----------------------------------------------------------------------------
(* Mat3 / Vec2 (the source's indices start at 0) *)

At(M, i, j) == M[i + 1][j + 1]

Identity ==
  << <<One, Zero, Zero>>, <<Zero, One, Zero>>, <<Zero, Zero, One>> >>

MatMul(A, B) ==
  [i \in 1..3 |->
    [j \in 1..3 |->
      Add(Add(Mul(A[i][1], B[1][j]), Mul(A[i][2], B[2][j])),
          Mul(A[i][3], B[3][j]))]]

\* cofactor_3x3<i,j>: the cyclic 2x2 minor (the sign is in the cyclic order).
Cofactor(M, i, j) ==
  LET i1 == (i + 1) % 3
      i2 == (i + 2) % 3
      j1 == (j + 1) % 3
      j2 == (j + 2) % 3
  IN  Sub(Mul(At(M, i1, j1), At(M, i2, j2)), Mul(At(M, i1, j2), At(M, i2, j1)))

Determinant(M) ==
  Add(Add(Mul(Cofactor(M, 0, 0), At(M, 0, 0)),
          Mul(Cofactor(M, 1, 0), At(M, 1, 0))),
      Mul(Cofactor(M, 2, 0), At(M, 2, 0)))

Cofactors(M) == [i \in 1..3 |-> [j \in 1..3 |-> Cofactor(M, i - 1, j - 1)]]

Scaled(C, invdet) ==
  [i \in 1..3 |-> [j \in 1..3 |-> Mul(At(C, j - 1, i - 1), invdet)]]

\* Mat3::inverse(): the transposed cofactors times 1/det.
InverseImpl(M) == Scaled(Cofactors(M), Recip(Determinant(M)))

\* The calibration matrices the bounded inputs can produce, with their
\* inverses computed once.
InverseTable ==
  [M \in {<< <<R(f), Zero, R(x)>>, <<Zero, R(f), R(y)>>, <<Zero, Zero, One>> >> :
            f \in 0..MaxFocal, x \in 0..MaxCoord, y \in 0..MaxCoord}
     |-> InverseImpl(M)]

Inverse(M) ==
  IF M \in DOMAIN InverseTable THEN InverseTable[M] ELSE InverseImpl(M)

----------------------------------------------------------------------------
(* Pinhole_Intrinsic *)

\* A plausible slip: a value written into the skew entry K(0,1).
Pinhole_Intrinsic_skew(w, h, focal_length_pix, ppx, ppy) ==
  LET K == << <<focal_length_pix, ppx, ppx>>,
              <<Zero, focal_length_pix, ppy>>,
              <<Zero, Zero, One>> >>
  IN  [w |-> w, h |-> h, K |-> K, Kinv |-> Inverse(K)]

\* The constructor: IntrinsicBase(w, h), _K from the five values, _Kinv from _K.
Pinhole_Intrinsic(w, h, focal_length_pix, ppx, ppy) ==
  LET K == << <<focal_length_pix, Zero, ppx>>,
              <<Zero, focal_length_pix, ppy>>,
              <<Zero, Zero, One>> >>
  IN  [w |-> w, h |-> h, K |-> K, Kinv |-> Inverse(K)]

focal(c) == At(c.K, 0, 0)

principal_point(c) == <<At(c.K, 0, 2), At(c.K, 1, 2)>>

\* A plausible slip: the principal point left out.
cam2ima_noOffset(c, p) ==
  [i \in 1..2 |-> Mul(focal(c), p[i])]

\* focal() * p + principal_point()
cam2ima(c, p) ==
  [i \in 1..2 |-> Add(Mul(focal(c), p[i]), principal_point(c)[i])]

\* ( p - principal_point() ) / focal()
ima2cam(c, p) ==
  [i \in 1..2 |-> Div(Sub(p[i], principal_point(c)[i]), focal(c))]

\* A plausible slip: the principal point in the wrong order.
getParams_swapped(c) == <<At(c.K, 0, 0), At(c.K, 1, 2), At(c.K, 0, 2)>>

getParams(c) == <<At(c.K, 0, 0), At(c.K, 0, 2), At(c.K, 1, 2)>>

\* A plausible slip: accept any vector that holds at least three values.
updateFromParams_atLeast3(c, params) ==
  IF Len(params) >= 3
  THEN [obj |-> Pinhole_Intrinsic(c.w, c.h, params[1], params[2], params[3]),
        ret |-> TRUE]
  ELSE [obj |-> c, ret |-> FALSE]

\* A plausible slip: write the new values into _K and keep the cached _Kinv.
updateFromParams_patchK(c, params) ==
  IF Len(params) = 3
  THEN [obj |-> [c EXCEPT !.K =
                   Pinhole_Intrinsic(c.w, c.h, params[1], params[2], params[3]).K],
        ret |-> TRUE]
  ELSE [obj |-> c, ret |-> FALSE]

\* A plausible slip: the principal point read in the wrong order.
updateFromParams_wrongOrder(c, params) ==
  IF Len(params) = 3
  THEN [obj |-> Pinhole_Intrinsic(c.w, c.h, params[1], params[3], params[2]),
        ret |-> TRUE]
  ELSE [obj |-> c, ret |-> FALSE]

\* A plausible slip: rebuild from default image dimensions.
updateFromParams_dropSize(c, params) ==
  IF Len(params) = 3
  THEN [obj |-> Pinhole_Intrinsic(0, 0, params[1], params[2], params[3]),
        ret |-> TRUE]
  ELSE [obj |-> c, ret |-> FALSE]

\* The object after the call, and the value returned.
updateFromParams(c, params) ==
  IF Len(params) = 3
  THEN [obj |-> Pinhole_Intrinsic(c.w, c.h, params[1], params[2], params[3]),
        ret |-> TRUE]
  ELSE [obj |-> c, ret |-> FALSE]

----------------------------------------------------------------------------
(* Serialization: an archive is the sequence of the name/value pairs written *)

\* IntrinsicBase::save writes the shared fields: width, then height.
IntrinsicBase_save(c) == << <<"width", c.w>>, <<"height", c.h>> >>

\* A plausible slip: the principal point written in the wrong order.
save_swapped(c) ==
  IntrinsicBase_save(c)
    \o << <<"focal_length", At(c.K, 0, 0)>>,
          <<"principal_point", <<At(c.K, 1, 2), At(c.K, 0, 2)>> >> >>

save(c) ==
  IntrinsicBase_save(c)
    \o << <<"focal_length", At(c.K, 0, 0)>>,
          <<"principal_point", <<At(c.K, 0, 2), At(c.K, 1, 2)>> >> >>

\* Whether the i-th value of the archive can be read under the given name;
\* when it cannot, the archive throws.
ReadOk(ar, i, name) == Len(ar) >= i /\ ar[i][1] = name

\* IntrinsicBase::load reads width, then height, into the object's own fields.
IntrinsicBase_load(c, ar) ==
  IF ~ReadOk(ar, 1, "width") THEN [obj |-> c, ok |-> FALSE]
  ELSE LET c1 == [c EXCEPT !.w = ar[1][2]]
       IN  IF ~ReadOk(ar, 2, "height") THEN [obj |-> c1, ok |-> FALSE]
           ELSE [obj |-> [c1 EXCEPT !.h = ar[2][2]], ok |-> TRUE]

\* The object load leaves behind, and whether it returned (ok) or an archive
\* read threw before the final assignment.
load(c, ar) ==
  LET b == IntrinsicBase_load(c, ar)
  IN  IF ~b.ok THEN b
      ELSE IF ~ReadOk(ar, 3, "focal_length") THEN [obj |-> b.obj, ok |-> FALSE]
      ELSE IF ~ReadOk(ar, 4, "principal_point") THEN [obj |-> b.obj, ok |-> FALSE]
      ELSE [obj |-> Pinhole_Intrinsic(b.obj.w, b.obj.h, ar[3][2],
                                      ar[4][2][1], ar[4][2][2]),
            ok |-> TRUE]

----------------------------------------------------------------------------
(* Inputs *)

Dims == 0..MaxDim
Focals == {R(i) : i \in 0..MaxFocal}
Coords == {R(i) : i \in 0..MaxCoord}

\* Every object the constructor can build from the bounded inputs; the
\* default-constructed object is Pinhole_Intrinsic(0, 0, 0, 0, 0).
Cams ==
  {Pinhole_Intrinsic(w, h, f, x, y) :
     w \in Dims, h \in Dims, f \in Focals, x \in Coords, y \in Coords}

DefaultCam == Pinhole_Intrinsic(0, 0, Zero, Zero, Zero)

\* Parameter vectors: every well-sized one, and vectors of every length
\* 0..MaxLen.
ParamVectors ==
  {<<f, x, y>> : f \in Focals, x \in Coords, y \in Coords}
    \cup {[i \in 1..n |-> x] : n \in 0..MaxLen, x \in Coords}

Points == {<<x, y>> : x \in Coords, y \in Coords}

\* Archives offered to load: what save wrote for some object, whole or cut
\* short after any number of values.
Archives == {SubSeq(save(c), 1, n) : c \in Cams, n \in 0..4}

----------------------------------------------------------------------------
(* The state machine *)

Init ==
  /\ cam \in Cams
  /\ fresh = (cam = DefaultCam)
  /\ changed = FALSE
  /\ op = "construct"
  /\ arg = <<>>
  /\ ret = <<>>

CallGetParams ==
  /\ op' = "getParams"
  /\ arg' = <<>>
  /\ ret' = getParams(cam)
  /\ changed' = FALSE
  /\ UNCHANGED <<cam, fresh>>

CallUpdateFromParams ==
  \E params \in ParamVectors :
    \E r \in {updateFromParams(cam, params)} :
        /\ cam' = r.obj
        /\ fresh' = (fresh /\ ~r.ret)
        /\ changed' = (r.obj # cam)
        /\ op' = "updateFromParams"
        /\ arg' = params
        /\ ret' = r.ret

CallCam2Ima ==
  \E p \in Points :
    /\ op' = "cam2ima"
    /\ arg' = p
    /\ ret' = cam2ima(cam, p)
    /\ changed' = FALSE
    /\ UNCHANGED <<cam, fresh>>

CallIma2Cam ==
  \E p \in Points :
    /\ op' = "ima2cam"
    /\ arg' = p
    /\ ret' = ima2cam(cam, p)
    /\ changed' = FALSE
    /\ UNCHANGED <<cam, fresh>>

CallSave ==
  /\ op' = "save"
  /\ arg' = <<>>
  /\ ret' = save(cam)
  /\ changed' = FALSE
  /\ UNCHANGED <<cam, fresh>>

\* ret is TRUE when load returned and FALSE when an archive read threw.
CallLoad ==
  \E ar \in Archives :
    \E r \in {load(cam, ar)} :
        /\ cam' = r.obj
        /\ fresh' = (fresh /\ ~ReadOk(ar, 1, "width"))
        /\ changed' = (r.obj # cam)
        /\ op' = "load"
        /\ arg' = ar
        /\ ret' = r.ok

Next ==
  \/ CallGetParams
  \/ CallUpdateFromParams
  \/ CallCam2Ima
  \/ CallIma2Cam
  \/ CallSave
  \/ CallLoad

Spec == Init /\ [][Next]_vars

----------------------------------------------------------------------------
(* Properties *)

\* C1: updateFromParams with a vector whose size is not 3 (empty, shorter or
\* longer) returns false and leaves K, Kinv, width and height as they were.
C1_WrongSizeRejected ==
  [][(op' = "updateFromParams" /\ Len(arg') # 3)
       => (ret' = FALSE /\ cam' = cam)]_vars

C1_Witness ==
  /\ op = "updateFromParams"
  /\ Len(arg) > 3
  /\ ret = FALSE
  /\ ~changed
  /\ focal(cam) = R(2)

\* C2: in every reachable state the stored Kinv is the inverse of the stored
\* K (never the inverse of an earlier K), and K * Kinv is the identity
\* whenever the focal is not zero.
C2_KinvIsInverse ==
  /\ cam.Kinv = InverseImpl(cam.K)
  /\ focal(cam) # Zero => MatMul(cam.K, cam.Kinv) = Identity

C2_Witness ==
  /\ op = "updateFromParams"
  /\ changed
  /\ focal(cam) = R(2)
  /\ principal_point(cam) = <<One, Zero>>
  /\ At(cam.Kinv, 0, 0) = Norm(1, 2)
  /\ At(cam.Kinv, 0, 2) = Norm(-1, 2)
  /\ MatMul(cam.K, cam.Kinv) = Identity

\* C3: updateFromParams with a vector of size 3 returns true and leaves the
\* object the constructor builds from (width, height, v[0], v[1], v[2]), with
\* width and height those of before the call.
C3_UpdateReconstructs ==
  [][(op' = "updateFromParams" /\ Len(arg') = 3)
       => /\ ret' = TRUE
          /\ cam'.w = cam.w
          /\ cam'.h = cam.h
          /\ focal(cam') = arg'[1]
          /\ principal_point(cam') = <<arg'[2], arg'[3]>>
          /\ cam'.K = << <<arg'[1], Zero, arg'[2]>>,
                         <<Zero, arg'[1], arg'[3]>>,
                         <<Zero, Zero, One>> >>
          /\ cam'.Kinv = InverseImpl(cam'.K)]_vars

C3_Witness ==
  /\ op = "updateFromParams"
  /\ ret = TRUE
  /\ changed
  /\ arg = <<R(2), One, Zero>>
  /\ cam.w = 1
  /\ cam.h = 0
  /\ principal_point(cam) = <<One, Zero>>

\* C4: getParams returns exactly [K(0,0), K(0,2), K(1,2)] = [focal,
\* principal point x, principal point y] and does not change the object.
C4_GetParamsOrder ==
  [][op' = "getParams"
       => /\ cam' = cam
          /\ Len(ret') = 3
          /\ ret'[1] = focal(cam) /\ ret'[1] = At(cam.K, 0, 0)
          /\ ret'[2] = principal_point(cam)[1] /\ ret'[2] = At(cam.K, 0, 2)
          /\ ret'[3] = principal_point(cam)[2] /\ ret'[3] = At(cam.K, 1, 2)]_vars

C4_Witness ==
  /\ op = "getParams"
  /\ ret = <<R(2), Zero, One>>
  /\ ~changed

\* C5: save writes width, height, focal_length = K(0,0) and principal_point =
\* [K(0,2), K(1,2)] in that order, and load of what save wrote for an object
\* c, into an object in any state, returns and leaves an object equal to c.
C5_SaveLoadRoundTrip ==
  /\ op = "save" =>
        ret = << <<"width", cam.w>>, <<"height", cam.h>>,
                 <<"focal_length", At(cam.K, 0, 0)>>,
                 <<"principal_point", <<At(cam.K, 0, 2), At(cam.K, 1, 2)>> >> >>
  /\ op = "load" =>
        \A c \in Cams : arg = save(c) => (ret = TRUE /\ cam = c)

C5_Witness ==
  /\ op = "load"
  /\ ret = TRUE
  /\ changed
  /\ arg = save(cam)
  /\ cam = Pinhole_Intrinsic(1, 0, R(2), Zero, One)

\* C6: updateFromParams(getParams()) returns true and leaves K, Kinv, width
\* and height as they were.
C6_ParamsRoundTrip ==
  [][(op' = "updateFromParams" /\ arg' = getParams(cam))
       => (ret' = TRUE /\ cam' = cam)]_vars

C6_Witness ==
  /\ op = "updateFromParams"
  /\ ret = TRUE
  /\ ~changed
  /\ arg = <<R(2), Zero, One>>
  /\ cam.w = 1
  /\ cam.h = 0

\* C7: with a focal that is not zero, cam2ima and ima2cam undo each other:
\* cam2ima(ima2cam(p)) = p and ima2cam(cam2ima(p)) = p.
C7_Cam2ImaIma2CamInverse ==
  focal(cam) # Zero =>
    /\ op = "ima2cam" => cam2ima(cam, ret) = arg
    /\ op = "cam2ima" => ima2cam(cam, ret) = arg

C7_Witness ==
  /\ op = "ima2cam"
  /\ focal(cam) = R(2)
  /\ principal_point(cam) = <<One, Zero>>
  /\ arg = <<Zero, One>>
  /\ ret = <<Norm(-1, 2), Norm(1, 2)>>

\* C8: in every reachable state K is [[f,0,cx],[0,f,cy],[0,0,1]]: no skew,
\* one shared focal length, last row 0 0 1.
C8_KStructured ==
  /\ At(cam.K, 0, 1) = Zero
  /\ At(cam.K, 1, 0) = Zero
  /\ At(cam.K, 2, 0) = Zero
  /\ At(cam.K, 2, 1) = Zero
  /\ At(cam.K, 2, 2) = One
  /\ At(cam.K, 0, 0) = At(cam.K, 1, 1)

C8_Witness ==
  /\ op = "load"
  /\ ret = TRUE
  /\ changed
  /\ cam.K = << <<R(2), Zero, One>>, <<Zero, R(2), Zero>>, <<Zero, Zero, One>> >>

\* C9: the focal is zero only in an object built by the default constructor
\* and not written since.
C9_ZeroFocalOnlyDefault == focal(cam) = Zero => fresh

\* C10: whenever load stops (it returned, or a read threw), the object is
\* either as it was before load or the object the constructor builds from the
\* archive's width, height, focal_length and principal_point.
C10_LoadAllOrNothing ==
  [][op' = "load"
       => \/ cam' = cam
          \/ /\ Len(arg') = 4
             /\ cam' = Pinhole_Intrinsic(arg'[1][2], arg'[2][2], arg'[3][2],
                                         arg'[4][2][1], arg'[4][2][2])]_vars

====
